---- MODULE Spec2Model ----
(***************************************************************************)
(* Model of cudf.reshape.general.melt (python/cudf/reshape/general.py).    *)
(*                                                                         *)
(* One call of melt is a run of the state machine: Init fixes the frame    *)
(* and the arguments of the call, and each action is one block of the      *)
(* function body, in program order.  A raise ends the run with pc = "done" *)
(* and result.status = "error".                                            *)
(*                                                                         *)
(* A column name is a record [kind, chars]: a Python str is kept as the    *)
(* sequence of its characters, because the code asks whether an argument   *)
(* is a collections.abc.Sequence and then calls list() on it, and a str is *)
(* such a Sequence.                                                        *)
(***************************************************************************)
EXTENDS Integers, Sequences, FiniteSets, TLC

\* ---- bounds of the model ------------------------------------------------
MaxRows == 2       \* frames have 0..MaxRows rows
MaxArgLen == 2     \* id_vars / value_vars lists have 0..MaxArgLen names
MaxCols == 3       \* frames have 0..MaxCols columns

\* ---- names ----------------------------------------------------------------
Str(cs) == [kind |-> "str", chars |-> cs]
IntName(d) == [kind |-> "int", chars |-> <<d>>]

\* the column names a frame or an argument can use, in frame order
Pool == << Str(<<"a">>), Str(<<"a", "b">>), IntName("0") >>
PoolSet == {Pool[i] : i \in 1..Len(Pool)}
PoolIndex(n) == CHOOSE i \in 1..Len(Pool) : Pool[i] = n

DefaultVarName == Str(<<"v", "a", "r", "i", "a", "b", "l", "e">>)
DefaultValueName == Str(<<"v", "a", "l", "u", "e">>)

DTypes == {"int64", "float64", "category"}

Range(s) == {s[i] : i \in 1..Len(s)}
SeqsUpTo(S, k) == UNION {[1..m -> S] : m \in 0..k}

RECURSIVE SortedSeq(_)
SortedSeq(S) ==
  IF S = {} THEN <<>>
  ELSE LET m == CHOOSE x \in S : \A y \in S : x <= y
       IN <<m>> \o SortedSeq(S \ {m})

\* ---- the frame ------------------------------------------------------------
\* A column is [name, dtype, data]; the cell of column c at row i is a number
\* that identifies (c, i).
Cell(n, i) == 10 * PoolIndex(n) + i

MakeFrame(S, dt, n) ==
  LET idx == SortedSeq(S)
  IN [k \in 1..Len(idx) |->
        [name |-> Pool[idx[k]], dtype |-> dt[idx[k]],
         data |-> [i \in 1..n |-> Cell(Pool[idx[k]], i)]]]

FrameSet ==
  {MakeFrame(S, dt, n) :
     S \in {T \in SUBSET (1..Len(Pool)) : Cardinality(T) <= MaxCols},
     dt \in [1..Len(Pool) -> DTypes],
     n \in 0..MaxRows}

\* frame.columns
Columns(f) == [i \in 1..Len(f) |-> f[i].name]
\* frame[name], for a name that is a column
Col(f, n) == f[CHOOSE i \in 1..Len(f) : f[i].name = n]
\* len(frame)
FrameLen(f) == IF Len(f) = 0 THEN 0 ELSE Len(f[1].data)

\* ---- arguments ------------------------------------------------------------
NoneArg == [tag |-> "none", items |-> <<>>]
ScalarArg(n) == [tag |-> "scalar", items |-> <<n>>]
ListArg(s) == [tag |-> "list", items |-> s]

ArgSet ==
  {NoneArg} \cup {ScalarArg(n) : n \in PoolSet}
            \cup {ListArg(s) : s \in SeqsUpTo(PoolSet, MaxArgLen)}

NameArgs ==
  { <<DefaultVarName, DefaultValueName>>,
    <<Pool[1], DefaultValueName>>,
    <<DefaultVarName, DefaultVarName>> }

\* ---- errors ---------------------------------------------------------------
NoError == [type |-> "none", what |-> "", names |-> {}]
Raise(t, w, ns) == [type |-> t, what |-> w, names |-> ns]

\* ---- argument cleaning (lines 50-77) --------------------------------------
\* isinstance(x, collections.abc.Sequence): a list is one, and so is a str
IsSequence(arg) ==
  \/ arg.tag = "list"
  \/ arg.tag = "scalar" /\ arg.items[1].kind = "str"

\* list(x) for x a list or a str
ListOf(arg) ==
  IF arg.tag = "list" THEN arg.items
  ELSE LET cs == arg.items[1].chars
       IN [i \in 1..Len(cs) |-> Str(<<cs[i]>>)]

\* lines 51-53 / 65-67
Normalize(arg) == IF ~IsSequence(arg) THEN arg.items ELSE ListOf(arg)

\* a variant of Missing that reports only the first absent name
MissingFirstOnly(vars, f) ==
  LET absent == {i \in 1..Len(vars) : vars[i] \notin Range(Columns(f))}
  IN IF absent = {} THEN {}
     ELSE {vars[CHOOSE i \in absent : \A j \in absent : i <= j]}

\* lines 54 / 68
Missing(vars, f) == Range(vars) \ Range(Columns(f))

\* pandas Index.drop(labels): delete the positions of the labels
RECURSIVE Delete(_, _)
Delete(s, pos) ==
  IF Len(s) = 0 THEN <<>>
  ELSE Delete(SubSeq(s, 1, Len(s) - 1), pos)
         \o (IF Len(s) \in pos THEN <<>> ELSE <<s[Len(s)]>>)

\* a variant of Drop that takes the set difference and loses the frame's
\* column order
DropUnordered(cols, labels) ==
  LET kept == Delete(cols, {i \in 1..Len(cols) : cols[i] \in Range(labels)})
  IN [i \in 1..Len(kept) |-> kept[Len(kept) + 1 - i]]

Drop(cols, labels) ==
  Delete(cols, {i \in 1..Len(cols) : cols[i] \in Range(labels)})

\* ---- dtype check (lines 79-86) --------------------------------------------
\* a variant of DtypeError that takes the reference dtype from the last
\* value column
DtypeErrorLastAsReference(f, vvars) ==
  IF Len(vvars) = 0 THEN NoError
  ELSE LET dtypes == [i \in 1..Len(vvars) |-> Col(f, vvars[i]).dtype]
           dtype == dtypes[Len(dtypes)]
       IN IF dtype = "category"
          THEN Raise("NotImplementedError", "categorical", {})
          ELSE IF \E i \in 1..Len(dtypes) : dtypes[i] # dtype
               THEN Raise("ValueError", "dtype", {})
               ELSE NoError

\* a variant of DtypeError that compares only the first two value columns
DtypeErrorFirstPair(f, vvars) ==
  IF Len(vvars) = 0 THEN NoError
  ELSE LET dtypes == [i \in 1..Len(vvars) |-> Col(f, vvars[i]).dtype]
           dtype == dtypes[1]
       IN IF dtype = "category"
          THEN Raise("NotImplementedError", "categorical", {})
          ELSE IF Len(dtypes) >= 2 /\ dtypes[2] # dtype
               THEN Raise("ValueError", "dtype", {})
               ELSE NoError

DtypeError(f, vvars) ==
  IF Len(vvars) = 0 THEN NoError
  ELSE LET dtypes == [i \in 1..Len(vvars) |-> Col(f, vvars[i]).dtype]
           dtype == dtypes[1]
       IN IF dtype = "category"
          THEN Raise("NotImplementedError", "categorical", {})
          ELSE IF \E i \in 1..Len(dtypes) : dtypes[i] # dtype
               THEN Raise("ValueError", "dtype", {})
               ELSE NoError

\* ---- overlap (lines 88-95) ------------------------------------------------
\* a variant of Overlap that takes the difference instead of the intersection
OverlapAsDifference(ivars, vvars) == Range(ivars) \ Range(vvars)

Overlap(ivars, vvars) == Range(ivars) \cap Range(vvars)

OverlapError(ivars, vvars) ==
  IF Overlap(ivars, vvars) # {}
  THEN Raise("KeyError", "overlap", Overlap(ivars, vvars))
  ELSE NoError

\* ---- output buffers (lines 97-122) ----------------------------------------
\* the content of a buffer that rmm.device_array returns and nothing has
\* written yet; the code never reads it
Undef == -1
Series(dt, data, cats) == [dtype |-> dt, data |-> data, categories |-> cats]

NewNrow(f, vvars) == FrameLen(f) * Len(vvars)

\* a variant of AllocateOutcome that creates the buffers of the identifier
\* and variable columns before it looks up the dtype of value_vars[0]
AllocateBeforeValueDtype(f, ivars, vvars) ==
  LET head == [i \in 1..Len(ivars) |-> Col(f, ivars[i]).dtype] \o <<"int8">>
      dtypes == IF Len(vvars) = 0 THEN head
                ELSE head \o <<Col(f, vvars[1]).dtype>>
  IN [error |-> IF Len(vvars) = 0
                THEN Raise("IndexError", "value_vars[0]", {}) ELSE NoError,
      series |-> [i \in 1..Len(dtypes) |->
                    Series(dtypes[i],
                           [r \in 1..NewNrow(f, vvars) |-> Undef], <<>>)]]

\* lines 110-121: the dtypes list is completed (frame[value_vars[0]] raises
\* IndexError on an empty value_vars) before any buffer is created
AllocateOutcome(f, ivars, vvars) ==
  IF Len(vvars) = 0
  THEN [error |-> Raise("IndexError", "value_vars[0]", {}), series |-> <<>>]
  ELSE LET dtypes == [i \in 1..Len(ivars) |-> Col(f, ivars[i]).dtype]
                       \o <<"int8", Col(f, vvars[1]).dtype>>
       IN [error |-> NoError,
           series |-> [i \in 1..Len(dtypes) |->
                         Series(dtypes[i],
                                [r \in 1..NewNrow(f, vvars) |-> Undef], <<>>)]]

\* ---- libgdf.gdf_melt (lines 124-130) --------------------------------------
\* block layout: output row (j-1)*N + i comes from source row i and from
\* value_vars[j]
GdfMelt(f, ivars, vvars, series) ==
  LET N == FrameLen(f)
      src(r) == ((r - 1) % N) + 1
      blk(r) == ((r - 1) \div N) + 1
      fill(c, r) ==
        IF c <= Len(ivars) THEN Col(f, ivars[c]).data[src(r)]
        ELSE IF c = Len(ivars) + 1 THEN blk(r) - 1
        ELSE Col(f, vvars[blk(r)]).data[src(r)]
  IN [c \in 1..Len(series) |->
        Series(series[c].dtype,
               [r \in 1..Len(series[c].data) |-> fill(c, r)], <<>>)]

\* ---- result assembly (lines 132-142) --------------------------------------
\* OrderedDict.__setitem__: a new key is appended, an existing key keeps its
\* position and gets the new value
Put(d, k, v) ==
  IF \E i \in 1..Len(d) : d[i].name = k
  THEN [i \in 1..Len(d) |-> IF d[i].name = k THEN [name |-> k, col |-> v] ELSE d[i]]
  ELSE Append(d, [name |-> k, col |-> v])

RECURSIVE PutIds(_, _, _)
PutIds(ivars, series, n) ==
  IF n = 0 THEN <<>>
  ELSE Put(PutIds(ivars, series, n - 1), ivars[n], series[n])

Assemble(series, ivars, vvars, vname, valname) ==
  LET k == Len(ivars)
      ids == PutIds(ivars, series, k)
      temp == series[k + 1]
      withVar == Put(ids, vname, Series("category", temp.data, vvars))
  IN Put(withVar, valname, series[k + 2])

\* ---- the whole call, as a function of its arguments -----------------------
NoResult == [status |-> "none", error |-> NoError, table |-> <<>>]
ErrorResult(e) == [status |-> "error", error |-> e, table |-> <<>>]
TableResult(t) == [status |-> "table", error |-> NoError, table |-> t]

ResolveValueVars(f, ivars, varg) ==
  IF varg.tag # "none" THEN Normalize(varg) ELSE Drop(Columns(f), ivars)

Melt(f, iarg, varg, vname, valname) ==
  LET ivars == IF iarg.tag # "none" THEN Normalize(iarg) ELSE <<>>
      vvars == ResolveValueVars(f, ivars, varg)
      alloc == AllocateOutcome(f, ivars, vvars)
  IN IF Missing(ivars, f) # {}
     THEN ErrorResult(Raise("KeyError", "id_vars", Missing(ivars, f)))
     ELSE IF varg.tag # "none" /\ Missing(vvars, f) # {}
     THEN ErrorResult(Raise("KeyError", "value_vars", Missing(vvars, f)))
     ELSE IF DtypeError(f, vvars) # NoError
     THEN ErrorResult(DtypeError(f, vvars))
     ELSE IF OverlapError(ivars, vvars) # NoError
     THEN ErrorResult(OverlapError(ivars, vvars))
     ELSE IF alloc.error # NoError
     THEN ErrorResult(alloc.error)
     ELSE TableResult(Assemble(GdfMelt(f, ivars, vvars, alloc.series),
                               ivars, vvars, vname, valname))

\* ---- state ------------------------------------------------------------------
VARIABLES frame, id_arg, value_arg, var_name, value_name,
          pc, id_vars, value_vars, new_col_series, kernel_calls, result

vars == <<frame, id_arg, value_arg, var_name, value_name,
          pc, id_vars, value_vars, new_col_series, kernel_calls, result>>

args == <<frame, id_arg, value_arg, var_name, value_name>>

Init ==
  /\ frame \in FrameSet
  /\ id_arg \in ArgSet
  /\ value_arg \in ArgSet
  /\ \E na \in NameArgs : var_name = na[1] /\ value_name = na[2]
  /\ pc = "clean_id"
  /\ id_vars = <<>>
  /\ value_vars = <<>>
  /\ new_col_series = <<>>
  /\ kernel_calls = 0
  /\ result = NoResult

Fail(e) ==
  /\ pc' = "done"
  /\ result' = ErrorResult(e)

\* lines 50-61
CleanIdVars ==
  /\ pc = "clean_id"
  /\ id_vars' = IF id_arg.tag # "none" THEN Normalize(id_arg) ELSE <<>>
  /\ IF Missing(id_vars', frame) # {}
     THEN Fail(Raise("KeyError", "id_vars", Missing(id_vars', frame)))
     ELSE pc' = "clean_value" /\ UNCHANGED result
  /\ UNCHANGED <<args, value_vars, new_col_series, kernel_calls>>

\* lines 64-77
CleanValueVars ==
  /\ pc = "clean_value"
  /\ value_vars' = ResolveValueVars(frame, id_vars, value_arg)
  /\ IF value_arg.tag # "none" /\ Missing(value_vars', frame) # {}
     THEN Fail(Raise("KeyError", "value_vars", Missing(value_vars', frame)))
     ELSE pc' = "check_dtype" /\ UNCHANGED result
  /\ UNCHANGED <<args, id_vars, new_col_series, kernel_calls>>

\* lines 79-86
CheckDtype ==
  /\ pc = "check_dtype"
  /\ IF DtypeError(frame, value_vars) # NoError
     THEN Fail(DtypeError(frame, value_vars))
     ELSE pc' = "check_overlap" /\ UNCHANGED result
  /\ UNCHANGED <<args, id_vars, value_vars, new_col_series, kernel_calls>>

\* lines 88-95
CheckOverlap ==
  /\ pc = "check_overlap"
  /\ IF OverlapError(id_vars, value_vars) # NoError
     THEN Fail(OverlapError(id_vars, value_vars))
     ELSE pc' = "allocate" /\ UNCHANGED result
  /\ UNCHANGED <<args, id_vars, value_vars, new_col_series, kernel_calls>>

\* lines 97-122
Allocate ==
  /\ pc = "allocate"
  /\ LET out == AllocateOutcome(frame, id_vars, value_vars)
     IN /\ new_col_series' = out.series
        /\ IF out.error # NoError
           THEN Fail(out.error)
           ELSE pc' = "kernel" /\ UNCHANGED result
  /\ UNCHANGED <<args, id_vars, value_vars, kernel_calls>>

\* lines 124-130
CallKernel ==
  /\ pc = "kernel"
  /\ new_col_series' = GdfMelt(frame, id_vars, value_vars, new_col_series)
  /\ kernel_calls' = kernel_calls + 1
  /\ pc' = "assemble"
  /\ UNCHANGED <<args, id_vars, value_vars, result>>

\* lines 132-142
AssembleResult ==
  /\ pc = "assemble"
  /\ result' = TableResult(Assemble(new_col_series, id_vars, value_vars,
                                    var_name, value_name))
  /\ pc' = "done"
  /\ UNCHANGED <<args, id_vars, value_vars, new_col_series, kernel_calls>>

Next ==
  \/ CleanIdVars
  \/ CleanValueVars
  \/ CheckDtype
  \/ CheckOverlap
  \/ Allocate
  \/ CallKernel
  \/ AssembleResult

Spec == Init /\ [][Next]_vars

\* ---- sanity ---------------------------------------------------------------
StepwiseAgreesWithMelt ==
  pc = "done" => result = Melt(frame, id_arg, value_arg, var_name, value_name)

\* ---- vocabulary of the properties -----------------------------------------
Done == pc = "done"
Resolved == pc \notin {"clean_id", "clean_value"}

TableNames == {frame[i].name : i \in 1..Len(frame)}
IdNamesValid == \A i \in 1..Len(id_vars) : id_vars[i] \in TableNames
ValueNamesValid == \A i \in 1..Len(value_vars) : value_vars[i] \in TableNames
NamesValid == Resolved /\ IdNamesValid /\ ValueNamesValid
Shared == {n \in TableNames :
             /\ \E i \in 1..Len(id_vars) : id_vars[i] = n
             /\ \E j \in 1..Len(value_vars) : value_vars[j] = n}
Disjoint == Shared = {}

ValueDtype(j) == Col(frame, value_vars[j]).dtype
SomeCategorical ==
  \E j \in 1..Len(value_vars) : ValueDtype(j) = "category"
SomeDiffer ==
  \E i, j \in 1..Len(value_vars) : ValueDtype(i) # ValueDtype(j)
OneNonCategoricalType == ~SomeCategorical /\ ~SomeDiffer

ResultNames == [i \in 1..Len(result.table) |-> result.table[i].name]
Failed(t, w) ==
  /\ result.status = "error"
  /\ result.error.type = t
  /\ result.error.what = w

\* ---- C1 ---------------------------------------------------------------------
\* C1: for every table with N rows and every valid selection (names are
\* columns, id_vars and value_vars disjoint, value columns of one
\* non-categorical type) melt returns a table all of whose columns have
\* N * K rows, K = len(value_vars).
C1_RowCount ==
  (Done /\ NamesValid /\ Disjoint /\ OneNonCategoricalType)
    => /\ result.status = "table"
       /\ \A c \in 1..Len(result.table) :
            Len(result.table[c].col.data) = FrameLen(frame) * Len(value_vars)

\* ---- C2 ---------------------------------------------------------------------
ResolvedEmpty ==
  \/ value_arg.tag = "none" /\ TableNames \subseteq Range(id_vars)
  \/ value_arg = ListArg(<<>>)

\* C2: when the resolved value_vars is empty, melt succeeds and returns a
\* table with 0 rows in which the id_vars columns, the variable column and the
\* value column are present and empty, and the variable column has no
\* categories.
C2_EmptyValueVars ==
  (Done /\ IdNamesValid /\ ResolvedEmpty)
    => /\ result.status = "table"
       /\ Range(id_vars) \cup {var_name, value_name} \subseteq Range(ResultNames)
       /\ \A c \in 1..Len(result.table) : result.table[c].col.data = <<>>
       /\ \A c \in 1..Len(result.table) :
            result.table[c].name = var_name
              => result.table[c].col.categories = <<>>

\* ---- C3 ---------------------------------------------------------------------
\* C3 as written: whenever all names are columns and id_vars and value_vars
\* share a name, melt fails with the overlap KeyError listing exactly
\* id_vars \cap value_vars, whatever the value columns' element types.
C3_OverlapRegardlessOfTypes ==
  (Done /\ NamesValid /\ ~Disjoint)
    => Failed("KeyError", "overlap") /\ result.error.names = Shared

\* C3 amended: whenever all names are columns, id_vars and value_vars share
\* a name and the value columns have one non-categorical element type, melt
\* fails with the overlap KeyError listing exactly id_vars \cap value_vars.
C3_OverlapAfterTypeCheck ==
  (Done /\ NamesValid /\ ~Disjoint /\ OneNonCategoricalType)
    => Failed("KeyError", "overlap") /\ result.error.names = Shared

C3_Witness ==
  /\ Done /\ NamesValid /\ OneNonCategoricalType
  /\ Cardinality(Shared) = 2
  /\ Failed("KeyError", "overlap")

\* ---- C4 ---------------------------------------------------------------------
\* C4 as written: with valid, disjoint names, a categorical value column at
\* any position makes melt fail with NotImplementedError and no other error.
C4_CategoricalAnywhere ==
  (Done /\ NamesValid /\ Disjoint /\ SomeCategorical)
    => Failed("NotImplementedError", "categorical")

\* C4 amended: with valid, disjoint names, melt fails with
\* NotImplementedError when the first resolved value column is categorical;
\* when the first value column is not categorical and a later one is, melt
\* fails with the ValueError of inconsistent types.
C4_CategoricalFirst ==
  (Done /\ NamesValid /\ Disjoint /\ SomeCategorical)
    => IF ValueDtype(1) = "category"
       THEN Failed("NotImplementedError", "categorical")
       ELSE Failed("ValueError", "dtype")

C4_Witness ==
  /\ Done /\ NamesValid /\ Disjoint
  /\ Len(value_vars) >= 2
  /\ ValueDtype(1) = "category"
  /\ ValueDtype(2) # "category"
  /\ Failed("NotImplementedError", "categorical")

\* ---- C5 ---------------------------------------------------------------------
\* C5 as written: with valid, disjoint names, two value columns of different
\* element types make melt fail with the ValueError of inconsistent types.
C5_DifferingTypes ==
  (Done /\ NamesValid /\ Disjoint /\ SomeDiffer)
    => Failed("ValueError", "dtype")

\* C5 amended: with valid, disjoint names and a first value column that is
\* not categorical, two value columns of different element types (any two,
\* not only the first pair) make melt fail with the ValueError of
\* inconsistent types.
C5_DifferingTypesNonCategoricalFirst ==
  (Done /\ NamesValid /\ Disjoint /\ SomeDiffer /\ ValueDtype(1) # "category")
    => Failed("ValueError", "dtype")

C5_Witness ==
  /\ Done /\ NamesValid /\ Disjoint
  /\ Len(value_vars) = 3
  /\ ValueDtype(1) = ValueDtype(2)
  /\ ValueDtype(3) # ValueDtype(1)
  /\ Failed("ValueError", "dtype")

\* ---- C6 ---------------------------------------------------------------------
AbsentIds == {id_vars[i] : i \in {k \in 1..Len(id_vars) : id_vars[k] \notin TableNames}}
AbsentValues ==
  {value_vars[i] : i \in {k \in 1..Len(value_vars) : value_vars[k] \notin TableNames}}

C7_ColumnOrder ==
  result.status = "table" => ResultNames = id_vars \o <<var_name, value_name>>

\* ---- C8 ---------------------------------------------------------------------
RemainingColumns ==
  SelectSeq(Columns(frame), LAMBDA c : \A i \in 1..Len(id_vars) : id_vars[i] # c)

\* C8: when value_vars is omitted, the resolved value_vars is the sequence of
\* the table's columns whose name is not in id_vars, in the table's column
\* order, and the call returns what the call with value_vars given as that
\* sequence returns.
C8_DefaultValueVars ==
  value_arg.tag = "none"
    => /\ (Resolved /\ IdNamesValid) => value_vars = RemainingColumns
       /\ Done => result = Melt(frame, id_arg, ListArg(RemainingColumns),
                                var_name, value_name)

C8_Witness ==
  /\ Done /\ value_arg.tag = "none" /\ result.status = "table"
  /\ Len(id_vars) = 2
  /\ PoolIndex(id_vars[1]) > PoolIndex(id_vars[2])
  /\ Len(value_vars) = 1

\* ---- C9 ---------------------------------------------------------------------
\* C9: a bare scalar passed as id_vars or as value_vars, a str of several
\* characters included, behaves as the one-element list holding it.
C9_ScalarAsSingleton ==
  Done =>
    /\ id_arg.tag = "scalar"
         => result = Melt(frame, ListArg(id_arg.items), value_arg,
                          var_name, value_name)
    /\ value_arg.tag = "scalar"
         => result = Melt(frame, id_arg, ListArg(value_arg.items),
                          var_name, value_name)

\* ---- C10 --------------------------------------------------------------------
\* C10: in every execution that ends in an error, the error is raised before
\* any output buffer is allocated and before the kernel is called, no table
\* is returned, and the input table is unchanged.
C10_FailFast ==
  /\ [](result.status = "error"
          => new_col_series = <<>> /\ kernel_calls = 0 /\ result.table = <<>>)
  /\ [][frame' = frame]_vars

C10_Witness ==
  /\ Done /\ Failed("KeyError", "overlap")
  /\ new_col_series = <<>> /\ kernel_calls = 0
  /\ FrameLen(frame) >= 1

====
